---------------------------- MODULE Spec2Model ----------------------------
(***************************************************************************)
(* A model of difftastic's syntax-tree core (src/src/syntax.rs): the       *)
(* arena-owned List/Atom nodes, the metadata pass init_info, the change    *)
(* annotation set_change / set_change_deep, the matched-position deriver   *)
(* change_positions and the comment word splitter split_words.             *)
(*                                                                         *)
(* A node reference (&'a Syntax<'a>) is the node's place: the path         *)
(* <<side, i, j, ...>> from the roots of one side (1 = lhs, 2 = rhs) down  *)
(* to the node.  Text is a sequence of one-character strings.              *)
(***************************************************************************)
EXTENDS Integers, Sequences, FiniteSets, TLC

VARIABLES
    lhs_roots,   \* the parsed left tree: a sequence of nodes
    rhs_roots,   \* the parsed right tree
    info,        \* SyntaxInfo of every node, keyed by node reference
    inited,      \* history: init_info has run on these roots
    calls,       \* history: number of set_change / set_change_deep calls
    last,        \* history: the last call made, with its arguments
    before,      \* history: info as it was when the last call was made
    positions,   \* outcome of the last change_positions call
    s,           \* input text of split_words and of the styling functions
    words,       \* outcome of split_words(s)
    styles,      \* the (SingleLineSpan, Style) pairs given to the styling functions
    max_len,     \* the chunk width given to split_string / split_and_apply
    rendered,    \* outcome of the last styling call
    passes       \* history: the runs of the pass sequence made on the trees

\* The inputs and the outcome of the styling functions.
styleVars == <<styles, max_len, rendered>>

vars == <<lhs_roots, rhs_roots, info, inited, calls, last, before, positions, s, words,
          styles, max_len, rendered, passes>>

(***************************************************************************)
(* Option<T>                                                               *)
(***************************************************************************)
None == <<>>

Some(x) == <<x>>

(***************************************************************************)
(* Text                                                                    *)
(***************************************************************************)
NL == "\n"

\* char::is_alphanumeric restricted to the regex classes a-z A-Z 0-9
AlphaNum == {"a", "b", "0"}

\* char::is_whitespace, as used by str::trim_start
WhiteSpace == {" ", NL}

RECURSIVE SplitLines(_, _)
\* The pieces of text between newlines, `cur` being the piece in progress.
SplitLines(text, cur) ==
    IF text = <<>> THEN <<cur>>
    ELSE IF Head(text) = NL THEN <<cur>> \o SplitLines(Tail(text), <<>>)
    ELSE SplitLines(Tail(text), Append(cur, Head(text)))

\* str::lines(): split at "\n"; a final empty piece (text ending in a
\* newline, or empty text) is no line.
lines(text) ==
    LET pieces == SplitLines(text, <<>>)
    IN  IF pieces[Len(pieces)] = <<>> THEN SubSeq(pieces, 1, Len(pieces) - 1) ELSE pieces

RECURSIVE trim_start(_)
\* str::trim_start(): drop leading whitespace.
trim_start(l) ==
    IF l # <<>> /\ Head(l) \in WhiteSpace THEN trim_start(Tail(l)) ELSE l

RECURSIVE join(_, _)
\* [&str]::join(sep)
join(ls, sep) ==
    IF ls = <<>> THEN <<>>
    ELSE IF Len(ls) = 1 THEN ls[1]
    ELSE ls[1] \o sep \o join(Tail(ls), sep)

(***************************************************************************)
(* Syntax nodes                                                            *)
(***************************************************************************)
AtomKind == {"Normal", "Comment", "Keyword"}

SingleLineSpan(line, start_col, end_col) ==
    [line |-> line, start_col |-> start_col, end_col |-> end_col]

\* SyntaxInfo::new()
SyntaxInfo_new ==
    [next |-> None, prev |-> None, parent |-> None, prev_is_contiguous |-> FALSE,
     change |-> None, num_ancestors |-> 0, unique_id |-> 0, content_id |-> 0]

RECURSIVE SumDescendants(_)
SumDescendants(children) ==
    IF children = <<>> THEN 0
    ELSE (IF Head(children).type = "List" THEN Head(children).num_descendants + 1 ELSE 1)
         + SumDescendants(Tail(children))

\* Syntax::new_list
new_list(open_content, open_position, children, close_content, close_position) ==
    [type |-> "List", open_position |-> open_position, open_content |-> open_content,
     close_content |-> close_content, close_position |-> close_position,
     children |-> children, num_descendants |-> SumDescendants(children)]

\* Syntax::new_atom
new_atom(position, content, kind) ==
    [type |-> "Atom", position |-> position, content |-> content, kind |-> kind]

IsList(node) == node.type = "List"

Roots(side) == IF side = 1 THEN lhs_roots ELSE rhs_roots

RECURSIVE Descend(_, _)
Descend(nodes, p) ==
    IF Len(p) = 1 THEN nodes[p[1]] ELSE Descend(nodes[p[1]].children, Tail(p))

\* Dereference a node reference.
NodeAt(r) == Descend(Roots(r[1]), Tail(r))

RECURSIVE RefsUnder(_, _)
\* The references of all nodes of the forest `nodes` whose own reference
\* prefix is `prefix`.
RefsUnder(nodes, prefix) ==
    UNION {{Append(prefix, i)}
            \cup (IF IsList(nodes[i]) THEN RefsUnder(nodes[i].children, Append(prefix, i)) ELSE {})
           : i \in 1..Len(nodes)}

SideRefs(side) == RefsUnder(Roots(side), <<side>>)

Refs == SideRefs(1) \cup SideRefs(2)

\* first_line / last_line
first_line(node) ==
    LET position == IF IsList(node) THEN node.open_position ELSE node.position
    IN  IF position = <<>> THEN None ELSE Some(position[1].line)

last_line(node) ==
    LET position == IF IsList(node) THEN node.close_position ELSE node.position
    IN  IF position = <<>> THEN None ELSE Some(position[Len(position)].line)

(***************************************************************************)
(* The metadata pass: init_info                                            *)
(***************************************************************************)
RECURSIVE set_next(_, _, _, _, _)
\* fn set_next, from the i-th node of `nodes` on.
set_next(nodes, prefix, parent_next, i, inf) ==
    IF i > Len(nodes) THEN inf
    ELSE LET node == nodes[i]
             r == Append(prefix, i)
             node_next == IF i + 1 <= Len(nodes) THEN Some(Append(prefix, i + 1))
                          ELSE parent_next
             inf1 == [inf EXCEPT ![r].next = node_next]
             inf2 == IF IsList(node) THEN set_next(node.children, r, node_next, 1, inf1)
                     ELSE inf1
         IN  set_next(nodes, prefix, parent_next, i + 1, inf2)

RECURSIVE set_prev(_, _, _, _, _)
\* fn set_prev
set_prev(nodes, prefix, parent, i, inf) ==
    IF i > Len(nodes) THEN inf
    ELSE LET node == nodes[i]
             r == Append(prefix, i)
             node_prev == IF i = 1 THEN parent ELSE Some(Append(prefix, i - 1))
             inf1 == [inf EXCEPT ![r].prev = node_prev]
             inf2 == IF IsList(node) THEN set_prev(node.children, r, Some(r), 1, inf1)
                     ELSE inf1
         IN  set_prev(nodes, prefix, parent, i + 1, inf2)

RECURSIVE set_parent(_, _, _, _, _)
\* fn set_parent
set_parent(nodes, prefix, parent, i, inf) ==
    IF i > Len(nodes) THEN inf
    ELSE LET node == nodes[i]
             r == Append(prefix, i)
             inf1 == [inf EXCEPT ![r].parent = parent]
             inf2 == IF IsList(node) THEN set_parent(node.children, r, Some(r), 1, inf1)
                     ELSE inf1
         IN  set_parent(nodes, prefix, parent, i + 1, inf2)

RECURSIVE set_num_ancestors(_, _, _, _, _)
\* fn set_num_ancestors
set_num_ancestors(nodes, prefix, num_ancestors, i, inf) ==
    IF i > Len(nodes) THEN inf
    ELSE LET node == nodes[i]
             r == Append(prefix, i)
             inf1 == [inf EXCEPT ![r].num_ancestors = num_ancestors]
             inf2 == IF IsList(node)
                     THEN set_num_ancestors(node.children, r, num_ancestors + 1, 1, inf1)
                     ELSE inf1
         IN  set_num_ancestors(nodes, prefix, num_ancestors, i + 1, inf2)

\* The last line of a position list, as open_position.last().map(|p| p.line)
LastLineOf(position) ==
    IF position = <<>> THEN None ELSE Some(position[Len(position)].line)

RECURSIVE set_prev_is_contiguous_AlwaysClose(_, _, _, _)
\* set_prev_is_contiguous with the close delimiter compared for a parent too.
set_prev_is_contiguous_AlwaysClose(nodes, prefix, i, inf) ==
    IF i > Len(nodes) THEN inf
    ELSE LET node == nodes[i]
             r == Append(prefix, i)
             is_contiguous ==
                 IF inf[r].prev # None
                 THEN LET pr == inf[r].prev[1]
                          prev == NodeAt(pr)
                      IN  IF IsList(prev)
                          THEN LET prev_is_parent ==
                                       inf[pr].num_ancestors < inf[r].num_ancestors
                               IN  IF prev_is_parent
                                   THEN LastLineOf(prev.close_position) = first_line(node)
                                   ELSE LastLineOf(prev.close_position) = first_line(node)
                          ELSE last_line(prev) = first_line(node)
                 ELSE FALSE
             inf1 == [inf EXCEPT ![r].prev_is_contiguous = is_contiguous]
             inf2 == IF IsList(node) THEN set_prev_is_contiguous_AlwaysClose(node.children, r, 1, inf1)
                     ELSE inf1
         IN  set_prev_is_contiguous_AlwaysClose(nodes, prefix, i + 1, inf2)

RECURSIVE set_prev_is_contiguous(_, _, _, _)
\* fn set_prev_is_contiguous
set_prev_is_contiguous(nodes, prefix, i, inf) ==
    IF i > Len(nodes) THEN inf
    ELSE LET node == nodes[i]
             r == Append(prefix, i)
             is_contiguous ==
                 IF inf[r].prev # None
                 THEN LET pr == inf[r].prev[1]
                          prev == NodeAt(pr)
                      IN  IF IsList(prev)
                          THEN LET prev_is_parent ==
                                       inf[pr].num_ancestors < inf[r].num_ancestors
                               IN  IF prev_is_parent
                                   THEN LastLineOf(prev.open_position) = first_line(node)
                                   ELSE LastLineOf(prev.close_position) = first_line(node)
                          ELSE last_line(prev) = first_line(node)
                 ELSE FALSE
             inf1 == [inf EXCEPT ![r].prev_is_contiguous = is_contiguous]
             inf2 == IF IsList(node) THEN set_prev_is_contiguous(node.children, r, 1, inf1)
                     ELSE inf1
         IN  set_prev_is_contiguous(nodes, prefix, i + 1, inf2)

RECURSIVE set_unique_id(_, _, _, _)
\* fn set_unique_id; st = [info, next_id], next_id being the &mut u32 counter.
set_unique_id(nodes, prefix, i, st) ==
    IF i > Len(nodes) THEN st
    ELSE LET node == nodes[i]
             r == Append(prefix, i)
             st1 == [info |-> [st.info EXCEPT ![r].unique_id = st.next_id],
                     next_id |-> st.next_id + 1]
             st2 == IF IsList(node) THEN set_unique_id(node.children, r, 1, st1) ELSE st1
         IN  set_unique_id(nodes, prefix, i + 1, st2)

\* fn init_info_single
init_info_single(roots, side, st) ==
    LET i1 == set_next(roots, <<side>>, None, 1, st.info)
        i2 == set_prev(roots, <<side>>, None, 1, i1)
        i3 == set_parent(roots, <<side>>, None, 1, i2)
        i4 == set_num_ancestors(roots, <<side>>, 0, 1, i3)
        i5 == set_prev_is_contiguous(roots, <<side>>, 1, i4)
    IN  set_unique_id(roots, <<side>>, 1, [info |-> i5, next_id |-> st.next_id])

\* clean_content with the AtomKind test lost: every atom of more than one
\* line is keyed by its stripped lines.
clean_content_AnyKind(content, kind) ==
    IF Len(lines(content)) > 1
    THEN join([k \in 1..Len(lines(content)) |-> trim_start(lines(content)[k])], <<NL>>)
    ELSE content

\* The text an atom is keyed by (clean_content in set_content_id).
clean_content(content, kind) ==
    IF kind = "Comment" /\ Len(lines(content)) > 1
    THEN join([k \in 1..Len(lines(content)) |-> trim_start(lines(content)[k])], <<NL>>)
    ELSE content

\* The ContentKey of a list: (Some(open), Some(close), children ids, true, None)
ListKey(open_content, close_content, children_content_ids) ==
    <<Some(open_content), Some(close_content), children_content_ids, TRUE, None>>

\* AtomKey with the AtomKind left out of the key.
AtomKey_NoKind(content, kind) ==
    <<Some(IF kind = "Comment" /\ Len(lines(content)) > 1
           THEN join([k \in 1..Len(lines(content)) |-> trim_start(lines(content)[k])], <<NL>>)
           ELSE content), None, <<>>, FALSE, None>>

\* The ContentKey of an atom: (Some(clean_content), None, [], false, Some(kind))
AtomKey(content, kind) ==
    <<Some(clean_content(content, kind)), None, <<>>, FALSE, Some(kind)>>

\* NextContentId without the + 1 that keeps ids above zero.
NextContentId_FromZero(existing) == Cardinality(DOMAIN existing)

\* existing.len() as u32 + 1
NextContentId(existing) == Cardinality(DOMAIN existing) + 1

\* existing.entry(key).or_insert(next_id)
EntryOrInsert(existing, key, next_id) ==
    IF key \in DOMAIN existing THEN existing
    ELSE [k \in DOMAIN existing \cup {key} |-> IF k = key THEN next_id ELSE existing[k]]

RECURSIVE set_content_id(_, _, _, _)
\* fn set_content_id; st = [info, existing], existing being the HashMap.
set_content_id(nodes, prefix, i, st) ==
    IF i > Len(nodes) THEN st
    ELSE LET node == nodes[i]
             r == Append(prefix, i)
             \* Recurse first, so children all have their content_id set.
             st1 == IF IsList(node) THEN set_content_id(node.children, r, 1, st) ELSE st
             key == IF IsList(node)
                    THEN ListKey(node.open_content, node.close_content,
                                 [k \in 1..Len(node.children) |->
                                     st1.info[Append(r, k)].content_id])
                    ELSE AtomKey(node.content, node.kind)
             next_id == NextContentId(st1.existing)
             existing1 == EntryOrInsert(st1.existing, key, next_id)
             st2 == [info |-> [st1.info EXCEPT ![r].content_id = existing1[key]],
                     existing |-> existing1]
         IN  set_content_id(nodes, prefix, i + 1, st2)

\* The empty HashMap
EmptyMap == [k \in {} |-> 0]

\* init_info with a counter of its own for each side.
init_info_CounterPerSide(lhs, rhs, inf) ==
    LET a == init_info_single(lhs, 1, [info |-> inf, next_id |-> 0])
        b == init_info_single(rhs, 2, [info |-> a.info, next_id |-> 0])
        c == set_content_id(lhs, <<1>>, 1, [info |-> b.info, existing |-> EmptyMap])
        d == set_content_id(rhs, <<2>>, 1, c)
    IN  d.info

\* init_info with a unique_id counter that outlives the call: it goes on from
\* the highest id the nodes carry.
init_info_ContinueIds(lhs, rhs, inf) ==
    LET used == {inf[r].unique_id : r \in DOMAIN inf}
        start == IF used = {} THEN 0 ELSE CHOOSE x \in used : \A y \in used : y <= x
        a == init_info_single(lhs, 1, [info |-> inf, next_id |-> start])
        b == init_info_single(rhs, 2, a)
        c == set_content_id(lhs, <<1>>, 1, [info |-> b.info, existing |-> EmptyMap])
        d == set_content_id(rhs, <<2>>, 1, c)
    IN  d.info

\* fn init_info
init_info(lhs, rhs, inf) ==
    LET a == init_info_single(lhs, 1, [info |-> inf, next_id |-> 0])
        b == init_info_single(rhs, 2, a)
        c == set_content_id(lhs, <<1>>, 1, [info |-> b.info, existing |-> EmptyMap])
        d == set_content_id(rhs, <<2>>, 1, c)
    IN  d.info

(***************************************************************************)
(* Change annotation: set_change, set_change_deep                          *)
(***************************************************************************)
\* enum ChangeKind
Novel == [tag |-> "Novel"]

Unchanged(other) == [tag |-> "Unchanged", other |-> other]

ReplacedComment(this, opposite) ==
    [tag |-> "ReplacedComment", this |-> this, opposite |-> opposite]

\* Syntax::set_change
set_change(r, ck, inf) == [inf EXCEPT ![r].change = Some(ck)]

Min(a, b) == IF a <= b THEN a ELSE b

RECURSIVE set_change_deep(_, _, _), ZipChildren(_, _, _, _, _), StampChildren(_, _, _, _, _)
RECURSIVE ZipChildren_SameCounterpart(_, _, _, _, _), StampChildren_Shallow(_, _, _, _, _)
\* Syntax::set_change_deep
set_change_deep(r, ck, inf) ==
    LET inf1 == set_change(r, ck, inf)
        node == NodeAt(r)
    IN  IF IsList(node)
        THEN IF ck.tag = "Unchanged" /\ IsList(NodeAt(ck.other))
             THEN ZipChildren(r, ck.other,
                              Min(Len(node.children), Len(NodeAt(ck.other).children)), 1, inf1)
             ELSE StampChildren(r, ck, Len(node.children), 1, inf1)
        ELSE inf1

\* ZipChildren passing the list's own counterpart on to every child.
ZipChildren_SameCounterpart(r, other, n, k, inf) ==
    IF k > n THEN inf
    ELSE ZipChildren_SameCounterpart(r, other, n, k + 1,
                                     set_change_deep(Append(r, k), Unchanged(other), inf))

\* StampChildren without the recursion into the children's own children.
StampChildren_Shallow(r, ck, n, k, inf) ==
    IF k > n THEN inf
    ELSE StampChildren_Shallow(r, ck, n, k + 1, set_change(Append(r, k), ck, inf))

\* for (child, other_child) in children.iter().zip(other_children),
\* from the k-th pair on; n is the number of pairs.
ZipChildren(r, other, n, k, inf) ==
    IF k > n THEN inf
    ELSE ZipChildren(r, other, n, k + 1,
                     set_change_deep(Append(r, k), Unchanged(Append(other, k)), inf))

\* for child in children { child.set_change_deep(ck) }, from the k-th on.
StampChildren(r, ck, n, k, inf) ==
    IF k > n THEN inf
    ELSE StampChildren(r, ck, n, k + 1, set_change_deep(Append(r, k), ck, inf))

(***************************************************************************)
(* The comment word differ: split_words, split_comment_words               *)
(***************************************************************************)
\* What [a-zA-Z0-9] without the + matches: one alphanumeric character.
AlphaNumRun_OneChar(text) ==
    IF text # <<>> /\ Head(text) \in AlphaNum THEN <<Head(text)>> ELSE <<>>

RECURSIVE AlphaNumRun(_)
\* The longest prefix of alphanumeric characters: what [a-zA-Z0-9]+ matches.
AlphaNumRun(text) ==
    IF text # <<>> /\ Head(text) \in AlphaNum
    THEN <<Head(text)>> \o AlphaNumRun(Tail(text))
    ELSE <<>>

RECURSIVE split_words(_)
\* fn split_words: the successive matches of [a-zA-Z0-9]+|\n|[^a-zA-Z0-9\n]
split_words(text) ==
    IF text = <<>> THEN <<>>
    ELSE IF Head(text) \in AlphaNum
         THEN LET run == AlphaNumRun(text)
              IN  <<run>> \o split_words(SubSeq(text, Len(run) + 1, Len(text)))
    ELSE IF Head(text) = NL
         THEN <<<<NL>>>> \o split_words(Tail(text))
    ELSE <<<<Head(text)>>>> \o split_words(Tail(text))

Max(a, b) == IF a >= b THEN a ELSE b

RECURSIVE LcsLength(_, _, _, _)
\* The table of diff::slice: the length of a longest common subsequence of
\* the first i items of a and the first j items of b.
LcsLength(a, b, i, j) ==
    IF i = 0 \/ j = 0 THEN 0
    ELSE IF a[i] = b[j] THEN LcsLength(a, b, i - 1, j - 1) + 1
    ELSE Max(LcsLength(a, b, i - 1, j), LcsLength(a, b, i, j - 1))

RECURSIVE DiffUpTo(_, _, _, _)
\* The walk diff::slice makes back through its table, from (i, j).
DiffUpTo(a, b, i, j) ==
    IF i > 0 /\ j > 0 /\ a[i] = b[j]
    THEN Append(DiffUpTo(a, b, i - 1, j - 1), [tag |-> "Both", left |-> a[i], right |-> b[j]])
    ELSE IF j > 0 /\ (i = 0 \/ LcsLength(a, b, i, j - 1) >= LcsLength(a, b, i - 1, j))
    THEN Append(DiffUpTo(a, b, i, j - 1), [tag |-> "Right", right |-> b[j]])
    ELSE IF i > 0 /\ (j = 0 \/ LcsLength(a, b, i, j - 1) < LcsLength(a, b, i - 1, j))
    THEN Append(DiffUpTo(a, b, i - 1, j), [tag |-> "Left", left |-> a[i]])
    ELSE <<>>

\* diff::slice(left, right)
diff_slice(a, b) == DiffUpTo(a, b, Len(a), Len(b))

\* NewlinePositions::from: the offset at which every line of the text starts.
NewlinePositions_from(text) ==
    <<0>> \o [k \in 1..Cardinality({i \in 1..Len(text) : text[i] = NL}) |->
                 CHOOSE i \in 1..Len(text) :
                     /\ text[i] = NL
                     /\ Cardinality({h \in 1..i : text[h] = NL}) = k]

\* Past any offset of a text: the end of its last line.
OffsetMax == 1000

RECURSIVE from_offsets(_, _, _, _)
\* NewlinePositions::from_offsets: one span for every line the region
\* [region_start, region_end) touches, from line number line_num (0-based) on.
from_offsets(nl, region_start, region_end, line_num) ==
    IF line_num >= Len(nl) THEN <<>>
    ELSE LET line_start == nl[line_num + 1]
             line_end == IF line_num + 1 < Len(nl) THEN nl[line_num + 2] - 1 ELSE OffsetMax
         IN  IF region_start > line_end
             THEN from_offsets(nl, region_start, region_end, line_num + 1)
             ELSE IF line_start > region_end THEN <<>>
             ELSE <<SingleLineSpan(line_num,
                        IF line_start > region_start THEN 0 ELSE region_start - line_start,
                        IF region_end < line_end THEN region_end - line_start
                        ELSE line_end - line_start)>>
                  \o from_offsets(nl, region_start, region_end, line_num + 1)

\* NewlinePositions::from_offsets_relative_to: the spans of the region, moved
\* to start at the span `start`.
from_offsets_relative_to(nl, start, region_start, region_end) ==
    LET spans == from_offsets(nl, region_start, region_end, 0)
    IN  [k \in 1..Len(spans) |->
            IF spans[k].line = 0
            THEN SingleLineSpan(start.line, start.start_col + spans[k].start_col,
                                start.start_col + spans[k].end_col)
            ELSE SingleLineSpan(start.line + spans[k].line, spans[k].start_col,
                                spans[k].end_col)]

Ok(out) == [status |-> "ok", out |-> out]

Panic == [status |-> "panic"]

RECURSIVE CommentOffsets(_, _, _, _)
\* The two running offsets of split_comment_words after its loop has gone
\* over the diff results from the k-th on.
CommentOffsets(d, k, offset, opposite_offset) ==
    IF k > Len(d) THEN <<offset, opposite_offset>>
    ELSE IF d[k].tag = "Left"
         THEN CommentOffsets(d, k + 1, offset + Len(d[k].left), opposite_offset)
    ELSE IF d[k].tag = "Both"
         THEN CommentOffsets(d, k + 1, offset + Len(d[k].left),
                             opposite_offset + Len(d[k].right))
    ELSE CommentOffsets(d, k + 1, offset, opposite_offset + Len(d[k].right))

RECURSIVE CommentParts_RightKeepsOffset(_, _, _, _, _, _, _, _)
\* CommentParts with the opposite offset left alone by a word that exists on
\* the opposite side only.
CommentParts_RightKeepsOffset(d, k, nl, pos, opposite_nl, opposite_pos, offset, opposite_offset) ==
    IF k > Len(d) THEN Ok(<<>>)
    ELSE LET rest(o, oo) ==
                 CommentParts_RightKeepsOffset(d, k + 1, nl, pos, opposite_nl, opposite_pos, o, oo)
             emit(mp, o, oo) ==
                 IF rest(o, oo).status = "panic" THEN Panic
                 ELSE Ok(<<mp>> \o rest(o, oo).out)
         IN  IF d[k].tag = "Left"
             THEN LET word == d[k].left
                      spans == from_offsets_relative_to(nl, pos, offset, offset + Len(word))
                  IN  IF spans = <<>> THEN Panic
                      ELSE emit([kind |-> [tag |-> "ChangedCommentPart"], pos |-> spans[1]],
                                offset + Len(word), opposite_offset)
             ELSE IF d[k].tag = "Both"
             THEN LET word == d[k].left
                      opposite_word == d[k].right
                      spans == from_offsets_relative_to(nl, pos, offset, offset + Len(word))
                      opposite_word_pos ==
                          from_offsets_relative_to(opposite_nl, opposite_pos, opposite_offset,
                                                   opposite_offset + Len(opposite_word))
                  IN  IF spans = <<>> THEN Panic
                      ELSE emit([kind |-> [tag |-> "UnchangedCommentPart",
                                           self_pos |-> spans[1],
                                           opposite_pos |-> opposite_word_pos],
                                 pos |-> spans[1]],
                                offset + Len(word), opposite_offset + Len(opposite_word))
             ELSE rest(offset, opposite_offset)

RECURSIVE CommentParts(_, _, _, _, _, _, _, _)
\* The loop of split_comment_words over the diff results from the k-th on.
CommentParts(d, k, nl, pos, opposite_nl, opposite_pos, offset, opposite_offset) ==
    IF k > Len(d) THEN Ok(<<>>)
    ELSE LET rest(o, oo) ==
                 CommentParts(d, k + 1, nl, pos, opposite_nl, opposite_pos, o, oo)
             emit(mp, o, oo) ==
                 IF rest(o, oo).status = "panic" THEN Panic
                 ELSE Ok(<<mp>> \o rest(o, oo).out)
         IN  IF d[k].tag = "Left"
             THEN LET word == d[k].left
                      spans == from_offsets_relative_to(nl, pos, offset, offset + Len(word))
                  IN  IF spans = <<>> THEN Panic
                      ELSE emit([kind |-> [tag |-> "ChangedCommentPart"], pos |-> spans[1]],
                                offset + Len(word), opposite_offset)
             ELSE IF d[k].tag = "Both"
             THEN LET word == d[k].left
                      opposite_word == d[k].right
                      spans == from_offsets_relative_to(nl, pos, offset, offset + Len(word))
                      opposite_word_pos ==
                          from_offsets_relative_to(opposite_nl, opposite_pos, opposite_offset,
                                                   opposite_offset + Len(opposite_word))
                  IN  IF spans = <<>> THEN Panic
                      ELSE emit([kind |-> [tag |-> "UnchangedCommentPart",
                                           self_pos |-> spans[1],
                                           opposite_pos |-> opposite_word_pos],
                                 pos |-> spans[1]],
                                offset + Len(word), opposite_offset + Len(opposite_word))
             ELSE rest(offset, opposite_offset + Len(d[k].right))

\* fn split_comment_words
split_comment_words(content, pos, opposite_content, opposite_pos) ==
    CommentParts(diff_slice(split_words(content), split_words(opposite_content)), 1,
                 NewlinePositions_from(content), pos,
                 NewlinePositions_from(opposite_content), opposite_pos, 0, 0)

(***************************************************************************)
(* The matched-position deriver: MatchedPos::new, change_positions         *)
(***************************************************************************)
\* enum TokenKind
Delimiter == [tag |-> "Delimiter"]

TokenAtom(kind) == [tag |-> "Atom", kind |-> kind]

\* Every span of a position list, zero-width or not, each with `kind`.
NonEmptySpans_All(kind, position) ==
    [j \in 1..Len(position) |-> [kind |-> kind, pos |-> position[j]]]

\* The spans of a position list that are not zero-width, each with `kind`.
NonEmptySpans(kind, position) ==
    LET keep == {k \in 1..Len(position) : position[k].start_col # position[k].end_col}
        nth(j) == CHOOSE k \in keep : Cardinality({h \in keep : h <= k}) = j
    IN  [j \in 1..Cardinality(keep) |-> [kind |-> kind, pos |-> position[nth(j)]]]

\* MatchedPos::new(ck, highlight, pos); pos = <<pos.0, pos.1>>
MatchedPos_new(ck, highlight, pos) ==
    IF ck.tag = "ReplacedComment"
    THEN LET this == NodeAt(ck.this)
             opposite == NodeAt(ck.opposite)
         IN  IF IsList(this) \/ IsList(opposite) THEN Panic       \* unreachable!()
             ELSE IF pos[1] = <<>> \/ opposite.position = <<>> THEN Panic  \* index 0
             ELSE split_comment_words(this.content, pos[1][1],
                                      opposite.content, opposite.position[1])
    ELSE IF ck.tag = "Unchanged"
    THEN LET opposite == NodeAt(ck.other)
             opposite_pos == IF IsList(opposite)
                             THEN <<opposite.open_position, opposite.close_position>>
                             ELSE <<opposite.position, opposite.position>>
         IN  Ok(NonEmptySpans([tag |-> "Unchanged", highlight |-> highlight,
                               self_pos |-> pos, opposite_pos |-> opposite_pos], pos[1]))
    ELSE Ok(NonEmptySpans([tag |-> "Novel", highlight |-> highlight], pos[1]))

\* positions.extend(...), once nothing has panicked
Extend(acc, res) ==
    IF acc.status = "panic" \/ res.status = "panic" THEN Panic
    ELSE Ok(acc.out \o res.out)

RECURSIVE change_positions_UnsetAsNovel(_, _, _, _, _)
\* change_positions_ with a node that has no change set taken as Novel.
change_positions_UnsetAsNovel(nodes, prefix, i, inf, acc) ==
    IF i > Len(nodes) \/ acc.status = "panic" THEN acc
    ELSE LET node == nodes[i]
             r == Append(prefix, i)
             change == IF inf[r].change = None THEN [tag |-> "Novel"] ELSE inf[r].change[1]
         IN  IF IsList(node)
             THEN LET a1 == Extend(acc, MatchedPos_new(change, Delimiter,
                               <<node.open_position, node.close_position>>))
                      a2 == change_positions_UnsetAsNovel(node.children, r, 1, inf, a1)
                      a3 == Extend(a2, MatchedPos_new(change, Delimiter,
                               <<node.close_position, node.close_position>>))
                  IN  change_positions_UnsetAsNovel(nodes, prefix, i + 1, inf, a3)
             ELSE change_positions_UnsetAsNovel(nodes, prefix, i + 1, inf,
                      Extend(acc, MatchedPos_new(change, TokenAtom(node.kind),
                                                 <<node.position, <<>>>>)))

RECURSIVE change_positions_(_, _, _, _, _)
\* fn change_positions_, from the i-th node of `nodes` on; acc is the
\* positions vector, or Panic once the walk has panicked.
change_positions_(nodes, prefix, i, inf, acc) ==
    IF i > Len(nodes) \/ acc.status = "panic" THEN acc
    ELSE LET node == nodes[i]
             r == Append(prefix, i)
         IN  IF inf[r].change = None
             THEN Panic      \* "Should have changes set in all nodes"
             ELSE LET change == inf[r].change[1]
                  IN  IF IsList(node)
                      THEN LET a1 == Extend(acc, MatchedPos_new(change, Delimiter,
                                        <<node.open_position, node.close_position>>))
                               a2 == change_positions_(node.children, r, 1, inf, a1)
                               a3 == Extend(a2, MatchedPos_new(change, Delimiter,
                                        <<node.close_position, node.close_position>>))
                           IN  change_positions_(nodes, prefix, i + 1, inf, a3)
                      ELSE change_positions_(nodes, prefix, i + 1, inf,
                               Extend(acc, MatchedPos_new(change, TokenAtom(node.kind),
                                                          <<node.position, <<>>>>)))

\* fn change_positions(src, opposite_src, nodes), for the roots of one side
change_positions(side, inf) == change_positions_(Roots(side), <<side>>, 1, inf, Ok(<<>>))

(***************************************************************************)
(* Styling: style.rs                                                       *)
(***************************************************************************)
\* A character that takes two bytes in UTF-8; the other characters of the
\* texts are ASCII.
TwoByteChar == "é"

RECURSIVE str_len(_)
\* str::len(): the length of a text in bytes
str_len(text) ==
    IF text = <<>> THEN 0
    ELSE (IF Head(text) = TwoByteChar THEN 2 ELSE 1) + str_len(Tail(text))

\* lines::codepoint_len: the length of a text in characters
codepoint_len(text) == Len(text)

\* lines::substring_by_codepoint(s, start, end): the characters of s from the
\* start-th (0-based) up to, not including, the end-th.
substring_by_codepoint(text, start, end) == SubSeq(text, start + 1, Min(end, Len(text)))

\* Coloured text: a piece of text and how it is shown.
dimmed(text) == [how |-> "dimmed", text |-> text]

purple(text) == [how |-> "purple", text |-> text]

\* Text pushed as it is.
plain(text) == [how |-> "plain", text |-> text]

\* Style::apply
Style_apply(style, text) == [how |-> "styled", style |-> style, text |-> text]

\* format!("{:width$}", s, width = max_len): s with spaces added up to
\* max_len characters; a longer s is left as it is.
Padded(text, width) == text \o [k \in 1..(width - Len(text)) |-> " "]

\* s[..n] and s[n..]: the number of characters the first n bytes of the text
\* make up; none when byte n is inside a character (the slice panics).
CharsOfBytes(text, n) == {k \in 0..Len(text) : str_len(SubSeq(text, 1, k)) = n}

RECURSIVE SplitStringLoop(_, _, _)
\* The while loop of split_string and the push after it.
SplitStringLoop(res, text, width) ==
    IF str_len(text) > width
    THEN IF CharsOfBytes(text, width) = {} THEN Panic    \* not a char boundary
         ELSE LET k == CHOOSE k \in CharsOfBytes(text, width) : TRUE
              IN  SplitStringLoop(Append(res, SubSeq(text, 1, k)),
                                  SubSeq(text, k + 1, Len(text)), width)
    ELSE IF res = <<>> \/ text # <<>> THEN Ok(Append(res, Padded(text, width)))
    ELSE Ok(res)

\* fn split_string(s, max_len)
split_string(text, width) == SplitStringLoop(<<>>, text, width)

RECURSIVE ApplyLineLoop(_, _, _, _, _)
\* The loop of apply_line over the styles from the k-th on; i is the column
\* reached and res the string built.  Gives <<i, res>>.
ApplyLineLoop(line, line_styles, k, i, res) ==
    IF k > Len(line_styles) THEN <<i, res>>
    ELSE LET span == line_styles[k][1]
             style == line_styles[k][2]
         IN  IF span.start_col >= codepoint_len(line) THEN <<i, res>>     \* break
             ELSE LET res1 == IF i < span.start_col
                              THEN Append(res, dimmed(substring_by_codepoint(
                                                          line, i, span.start_col)))
                              ELSE res
                      span_s == substring_by_codepoint(line, span.start_col,
                                    Min(codepoint_len(line), span.end_col))
                  IN  ApplyLineLoop(line, line_styles, k + 1, span.end_col,
                                    Append(res1, Style_apply(style, span_s)))

\* fn apply_line(line, styles)
apply_line(line, line_styles) ==
    IF line_styles = <<>> THEN <<purple(line)>>
    ELSE LET r == ApplyLineLoop(line, line_styles, 1, 0, <<>>)
         IN  IF r[1] < codepoint_len(line)
             THEN Append(r[2], dimmed(substring_by_codepoint(line, r[1], codepoint_len(line))))
             ELSE r[2]

RECURSIVE OnLine(_, _)
\* group_by_line(ranges)[line_num], or the empty Vec of unwrap_or_default():
\* the ranges of one line in the order they were given.
OnLine(ranges, line_num) ==
    IF ranges = <<>> THEN <<>>
    ELSE (IF Head(ranges)[1].line = line_num THEN <<Head(ranges)>> ELSE <<>>)
         \o OnLine(Tail(ranges), line_num)

RECURSIVE ApplyLines(_, _, _)
\* The loop of apply over the lines of the text from the k-th on.
ApplyLines(ls, ranges, k) ==
    IF k > Len(ls) THEN <<>>
    ELSE apply_line(ls[k], OnLine(ranges, k - 1)) \o <<plain(<<NL>>)>>
         \o ApplyLines(ls, ranges, k + 1)

\* fn apply(s, styles)
apply(text, ranges) == ApplyLines(lines(text), ranges, 1)

\* What `i - prev_length` with i < prev_length comes to.  A build with
\* overflow checks panics at the subtraction; without them the column wraps to
\* one far past the chunk, where substring_by_codepoint fails or finds no
\* character.
Underflows == {"panic", "empty"}

RECURSIVE PartLoop(_, _, _, _, _, _)
\* The loop of split_and_apply over the styles, for one part; i is the column
\* reached and res the string built.  Gives <<i, res>>.
PartLoop(part, prev_length, line_styles, k, i, res) ==
    IF k > Len(line_styles) THEN <<i, res>>
    ELSE LET span == line_styles[k][1]
             style == line_styles[k][2]
         IN  IF span.start_col >= prev_length + codepoint_len(part) THEN <<i, res>>  \* break
             ELSE LET res1 == IF i >= prev_length /\ i < span.start_col
                              THEN Append(res, dimmed(substring_by_codepoint(
                                       part, i - prev_length, span.start_col - prev_length)))
                              ELSE res
                      res2 == IF span.end_col > prev_length
                              THEN Append(res1, Style_apply(style, substring_by_codepoint(
                                       part, Max(0, span.start_col - prev_length),
                                       Min(codepoint_len(part), span.end_col - prev_length))))
                              ELSE res1
                  IN  PartLoop(part, prev_length, line_styles, k + 1, span.end_col, res2)

\* The body of the loop of split_and_apply over the parts: one part styled.
StyledPart(part, prev_length, line_styles, underflow) ==
    LET r == PartLoop(part, prev_length, line_styles, 1, 0, <<>>)
        i == r[1]
    IN  IF i < prev_length + codepoint_len(part)
        THEN IF i < prev_length
             THEN IF underflow = "panic" THEN Panic ELSE Ok(Append(r[2], dimmed(<<>>)))
             ELSE Ok(Append(r[2], dimmed(substring_by_codepoint(
                                      part, i - prev_length, codepoint_len(part)))))
        ELSE Ok(r[2])

RECURSIVE StyledParts(_, _, _, _, _)
\* The loop of split_and_apply over the parts from the k-th on.
StyledParts(parts, k, prev_length, line_styles, underflow) ==
    IF k > Len(parts) THEN Ok(<<>>)
    ELSE LET res == StyledPart(parts[k], prev_length, line_styles, underflow)
             rest == StyledParts(parts, k + 1, prev_length + codepoint_len(parts[k]),
                                 line_styles, underflow)
         IN  IF res.status = "panic" \/ rest.status = "panic" THEN Panic
             ELSE Ok(<<res.out>> \o rest.out)

\* fn split_and_apply(line, max_len, styles)
split_and_apply(line, width, line_styles, underflow) ==
    LET parts == split_string(line, width)
    IN  IF parts.status = "panic" THEN Panic
        ELSE IF line_styles = <<>>
        THEN Ok([k \in 1..Len(parts.out) |-> <<purple(parts.out[k])>>])
        ELSE StyledParts(parts.out, 1, 0, line_styles, underflow)

(***************************************************************************)
(* Parsed trees: the inputs                                                *)
(***************************************************************************)
\* Most nodes the two trees hold together, in the content-id specification.
MaxNodes == 4

RECURSIVE TreesN(_, _, _), ForestsN(_, _, _)
\* The trees of exactly k nodes built by new_atom / new_list from the atom
\* labels `atoms` and the delimiter pairs `shells`.
TreesN(k, atoms, shells) ==
    (IF k = 1 THEN {new_atom(a.position, a.content, a.kind) : a \in atoms} ELSE {})
    \cup {new_list(d.open_content, d.open_position, kids, d.close_content, d.close_position)
          : d \in shells, kids \in ForestsN(k - 1, atoms, shells)}

\* The sequences of trees holding exactly k nodes together.
ForestsN(k, atoms, shells) ==
    IF k = 0 THEN {<<>>}
    ELSE UNION {{<<t>> \o f : t \in TreesN(j, atoms, shells),
                              f \in ForestsN(k - j, atoms, shells)} : j \in 1..k}

RECURSIVE PlaceCode(_)
\* A number of its own for every place of a forest.
PlaceCode(p) == IF p = <<>> THEN 0 ELSE PlaceCode(SubSeq(p, 1, Len(p) - 1)) * 8 + p[Len(p)]

\* The spans of a label moved to the columns of the place r, so that nodes at
\* different places of a file have different spans.
PlacedAt(position, r) ==
    [k \in 1..Len(position) |->
        SingleLineSpan(position[k].line,
                       position[k].start_col + 4 * PlaceCode(Tail(r)),
                       position[k].end_col + 4 * PlaceCode(Tail(r)))]

RECURSIVE Relocate(_, _)
\* The forest with the spans of every node moved to the node's place.
Relocate(nodes, prefix) ==
    [i \in 1..Len(nodes) |->
        LET r == Append(prefix, i)
        IN  IF IsList(nodes[i])
            THEN [nodes[i] EXCEPT !.open_position = PlacedAt(@, r),
                                  !.close_position = PlacedAt(@, r),
                                  !.children = Relocate(@, r)]
            ELSE [nodes[i] EXCEPT !.position = PlacedAt(@, r)]]

\* Atom texts: one line with and without leading whitespace, and two lines
\* that differ in the second line's leading whitespace only.
IdContents ==
    {<<"a">>, <<" ", "a">>, <<"a", NL, "b">>, <<"a", NL, " ", "b">>}

IdAtoms == [content : IdContents, kind : AtomKind, position : {<<SingleLineSpan(0, 0, 1)>>}]

IdShells ==
    [open_content : {<<"(">>, <<"[">>}, close_content : {<<")">>, <<"]">>},
     open_position : {<<SingleLineSpan(0, 0, 1)>>},
     close_position : {<<SingleLineSpan(0, 2, 3)>>}]

DefaultInfo(lhs, rhs) ==
    [r \in RefsUnder(lhs, <<1>>) \cup RefsUnder(rhs, <<2>>) |-> SyntaxInfo_new]

NoCall == [op |-> "none"]

NoPositions == [status |-> "none"]

NoRender == [op |-> "none"]

\* No run of the pass sequence yet.
NoPasses == [phase |-> "parsed", runs |-> 0, cs |-> <<>>, k |-> 0, first |-> [status |-> "none"]]

\* Two trees just parsed: nothing of SyntaxInfo set.
Parsed(lhs, rhs) ==
    /\ lhs_roots = lhs
    /\ rhs_roots = rhs
    /\ info = DefaultInfo(lhs, rhs)
    /\ inited = FALSE
    /\ calls = 0
    /\ last = NoCall
    /\ before = info
    /\ positions = NoPositions
    /\ s = <<>>
    /\ words = <<>>
    /\ styles = <<>>
    /\ max_len = 1
    /\ rendered = NoRender
    /\ passes = NoPasses

\* Trees over any two labels, holding at most MaxNodes nodes together.
InitIds ==
    \E l1 \in IdAtoms \cup IdShells, l2 \in IdAtoms \cup IdShells :
        \E n \in 0..MaxNodes, m \in 0..MaxNodes :
            /\ n + m <= MaxNodes
            /\ \E lhs \in ForestsN(n, {l1, l2} \cap IdAtoms, {l1, l2} \cap IdShells),
                  rhs \in ForestsN(m, {l1, l2} \cap IdAtoms, {l1, l2} \cap IdShells) :
                   Parsed(Relocate(lhs, <<1>>), Relocate(rhs, <<2>>))

\* Most nodes the two trees hold together, when change_positions runs.
MaxTreeNodes == 4

\* Most nodes the two trees hold together, when only annotations are made.
MaxChangeNodes == 5

\* Most set_change / set_change_deep calls made on one pair of trees.
MaxCalls == 2

Parens ==
    [open_content |-> <<"(">>, open_position |-> <<SingleLineSpan(0, 0, 1)>>,
     close_content |-> <<")">>, close_position |-> <<SingleLineSpan(1, 2, 3)>>]

\* The zero-width delimiters of a virtual wrapper list.
Virtual ==
    [open_content |-> <<>>, open_position |-> <<SingleLineSpan(0, 0, 0)>>,
     close_content |-> <<>>, close_position |-> <<SingleLineSpan(0, 0, 0)>>]

\* Delimiters of two lines each, one of the two spans zero-width.
Brackets ==
    [open_content |-> <<"[", NL>>,
     open_position |-> <<SingleLineSpan(0, 0, 1), SingleLineSpan(1, 0, 0)>>,
     close_content |-> <<NL, "]">>,
     close_position |-> <<SingleLineSpan(1, 3, 3), SingleLineSpan(2, 2, 3)>>]

PlainAtom ==
    [content |-> <<"a">>, kind |-> "Normal", position |-> <<SingleLineSpan(0, 0, 1)>>]

\* A comment of two lines, the second line's span zero-width.
CommentAtom ==
    [content |-> <<"a", " ", "b", NL>>, kind |-> "Comment",
     position |-> <<SingleLineSpan(0, 0, 3), SingleLineSpan(1, 0, 0)>>]

\* A keyword over two lines.
KeywordAtom ==
    [content |-> <<"a", NL, "b">>, kind |-> "Keyword",
     position |-> <<SingleLineSpan(0, 0, 1), SingleLineSpan(1, 0, 1)>>]

\* The labels one pair of trees is built from: one atom, one delimiter pair.
TreeLabels ==
    { [atom |-> PlainAtom, shell |-> Parens],
      [atom |-> CommentAtom, shell |-> Brackets],
      [atom |-> KeywordAtom, shell |-> Virtual] }

\* One tree a side, built from one of `labels`, the two trees holding at most
\* `most` nodes together.
TreePairs(labels, most) ==
    \E l \in labels :
        \E n \in 1..most, m \in 1..most :
            /\ n + m <= most
            /\ \E lhs \in TreesN(n, {l.atom}, {l.shell}), rhs \in TreesN(m, {l.atom}, {l.shell}) :
                   Parsed(Relocate(<<lhs>>, <<1>>), Relocate(<<rhs>>, <<2>>))

InitTrees == TreePairs(TreeLabels, MaxTreeNodes)

InitChange == TreePairs({[atom |-> PlainAtom, shell |-> Parens]}, MaxChangeNodes)

(***************************************************************************)
(* Operations                                                              *)
(***************************************************************************)
\* init_info(lhs_roots, rhs_roots)
InitInfo ==
    /\ info' = init_info(lhs_roots, rhs_roots, info)
    /\ inited' = TRUE
    /\ UNCHANGED <<lhs_roots, rhs_roots, calls, last, before, positions, s, words, styleVars, passes>>

\* The ChangeKinds the matcher gives the node at r: Novel, or Unchanged or
\* ReplacedComment with a node of the opposite tree.
ChangeKindsFor(r) ==
    {Novel}
    \cup {Unchanged(o) : o \in SideRefs(3 - r[1])}
    \cup {ReplacedComment(r, o) : o \in SideRefs(3 - r[1])}

\* node.set_change(ck)
SetChange(r, ck) ==
    /\ calls < MaxCalls
    /\ info' = set_change(r, ck, info)
    /\ calls' = calls + 1
    /\ last' = [op |-> "set_change", node |-> r, ck |-> ck]
    /\ before' = info
    /\ positions' = NoPositions
    /\ UNCHANGED <<lhs_roots, rhs_roots, inited, s, words, styleVars, passes>>

\* node.set_change_deep(ck)
SetChangeDeep(r, ck) ==
    /\ calls < MaxCalls
    /\ info' = set_change_deep(r, ck, info)
    /\ calls' = calls + 1
    /\ last' = [op |-> "set_change_deep", node |-> r, ck |-> ck]
    /\ before' = info
    /\ positions' = NoPositions
    /\ UNCHANGED <<lhs_roots, rhs_roots, inited, s, words, styleVars, passes>>

\* change_positions(src, opposite_src, roots of one side)
ChangePositions(side) ==
    /\ positions' = [side |-> side] @@ change_positions(side, info)
    /\ UNCHANGED <<lhs_roots, rhs_roots, info, inited, calls, last, before, s, words, styleVars, passes>>

\* init_info, and as the tests do, the first left root marked Novel before or
\* after it.
NextIds ==
    \/ InitInfo
    \/ calls = 0 /\ <<1, 1>> \in Refs /\ SetChangeDeep(<<1, 1>>, Novel)

\* The matcher's calls alone.
NextChange ==
    \/ \E r \in Refs : \E ck \in ChangeKindsFor(r) : SetChange(r, ck)
    \/ \E r \in Refs : \E ck \in ChangeKindsFor(r) : SetChangeDeep(r, ck)

SpecChange == InitChange /\ [][NextChange]_vars

\* The passes in their order: init_info, then the matcher's calls, and
\* change_positions on either side.
Next ==
    \/ InitInfo
    \/ inited /\ \E r \in Refs : \E ck \in ChangeKindsFor(r) : SetChange(r, ck)
    \/ inited /\ \E r \in Refs : \E ck \in ChangeKindsFor(r) : SetChangeDeep(r, ck)
    \/ inited /\ \E side \in {1, 2} : ChangePositions(side)

Spec == InitTrees /\ [][Next]_vars

SpecIds == InitIds /\ [][NextIds]_vars

\* Longest comment text given to the comment word differ.
MaxCommentLen == 3

CommentChars == {"a", "b", " ", NL}

CommentTexts == UNION {[1..n -> CommentChars] : n \in 1..MaxCommentLen}

\* The spans of a comment `content` that starts at column col of line `line`:
\* one span for every piece between newlines.
CommentPosition(content, line, col) ==
    LET pieces == SplitLines(content, <<>>)
    IN  [k \in 1..Len(pieces) |->
            IF k = 1 THEN SingleLineSpan(line, col, col + Len(pieces[1]))
            ELSE SingleLineSpan(line + k - 1, 0, Len(pieces[k]))]

\* One comment a side, at different places of the two files.
InitComment ==
    \E content \in CommentTexts, opposite_content \in CommentTexts :
        Parsed(<<new_atom(CommentPosition(content, 2, 4), content, "Comment")>>,
               <<new_atom(CommentPosition(opposite_content, 5, 1), opposite_content, "Comment")>>)

\* The left comment is marked as a replacement of the right one, and the
\* positions of the left side are derived.
NextComment ==
    \/ SetChange(<<1, 1>>, ReplacedComment(<<1, 1>>, <<2, 1>>))
    \/ ChangePositions(1)

SpecComment == InitComment /\ [][NextComment]_vars

\* Longest text given to split_words.
MaxLen == 4

\* Characters of a comment: alphanumerics, and an underscore, a full stop, a
\* space and a newline, which [a-zA-Z0-9] does not match.
WordChars == AlphaNum \cup {"_", ".", " ", NL}

Texts == UNION {[1..n -> WordChars] : n \in 0..MaxLen}

\* A text to split; no trees.
InitWords ==
    /\ s \in Texts
    /\ words = <<>>
    /\ lhs_roots = <<>>
    /\ rhs_roots = <<>>
    /\ info = DefaultInfo(<<>>, <<>>)
    /\ inited = FALSE
    /\ calls = 0
    /\ last = NoCall
    /\ before = info
    /\ positions = NoPositions
    /\ styles = <<>>
    /\ max_len = 1
    /\ rendered = NoRender
    /\ passes = NoPasses

\* words = split_words(s)
SplitWords ==
    /\ last = NoCall
    /\ words' = split_words(s)
    /\ last' = [op |-> "split_words"]
    /\ UNCHANGED <<lhs_roots, rhs_roots, info, inited, calls, before, positions, s, styleVars, passes>>

NextWords == SplitWords

SpecWords == InitWords /\ [][NextWords]_vars

\* Longest line given to split_string / split_and_apply.
MaxTextLen == 4

\* Longest text given to apply.
MaxApplyLen == 3

\* Most (span, style) pairs given to a styling function.
MaxStyles == 2

\* Widest chunk asked of split_string / split_and_apply.
MaxWidth == 3

\* Styles of color_positions for the left side: a Novel and an Unchanged token.
NovelStyle ==
    [foreground |-> "BrightRed", background |-> None, bold |-> FALSE, dimmed |-> FALSE]

UnchangedStyle ==
    [foreground |-> "White", background |-> None, bold |-> FALSE, dimmed |-> FALSE]

\* The spans of the lines `line_nums` with columns up to `cols`.
SpansUpTo(line_nums, cols) ==
    {SingleLineSpan(l, a, b) : l \in line_nums, a \in 0..cols, b \in 0..cols} \cap
    {sp \in [line : line_nums, start_col : 0..cols, end_col : 0..cols] :
        sp.start_col <= sp.end_col}

\* Style lists of up to MaxStyles pairs, in any order and overlapping or not;
\* the first pair has the Novel style and the others the Unchanged style.
StyleLists(line_nums, cols) ==
    UNION {{[k \in 1..n |-> <<sp[k], IF k = 1 THEN NovelStyle ELSE UnchangedStyle>>]
            : sp \in [1..n -> SpansUpTo(line_nums, cols)]} : n \in 0..MaxStyles}

\* No trees and no words: only the styling functions are called.
StylingOnly ==
    /\ words = <<>>
    /\ lhs_roots = <<>>
    /\ rhs_roots = <<>>
    /\ info = DefaultInfo(<<>>, <<>>)
    /\ inited = FALSE
    /\ calls = 0
    /\ last = NoCall
    /\ before = info
    /\ positions = NoPositions
    /\ rendered = NoRender
    /\ passes = NoPasses

\* One line of up to MaxTextLen characters, its styles with columns up to two
\* past its longest, and a chunk width.
InitChunks ==
    /\ s \in UNION {[1..n -> {"a", TwoByteChar}] : n \in 0..MaxTextLen}
    /\ styles \in StyleLists({0}, MaxTextLen + 2)
    /\ max_len \in 1..MaxWidth
    /\ StylingOnly

\* A text of up to MaxApplyLen characters and styles for its first two lines.
InitApply ==
    /\ s \in UNION {[1..n -> {"a", TwoByteChar, NL}] : n \in 0..MaxApplyLen}
    /\ styles \in StyleLists({0, 1}, MaxApplyLen + 1)
    /\ max_len = 1
    /\ StylingOnly

\* rendered = split_string(s, max_len)
SplitString ==
    /\ rendered = NoRender
    /\ rendered' = [op |-> "split_string", res |-> split_string(s, max_len)]
    /\ UNCHANGED <<lhs_roots, rhs_roots, info, inited, calls, last, before, positions,
                   s, words, styles, max_len, passes>>

\* rendered = split_and_apply(s, max_len, styles)
SplitAndApply(underflow) ==
    /\ rendered = NoRender
    /\ rendered' = [op |-> "split_and_apply",
                    res |-> split_and_apply(s, max_len, styles, underflow)]
    /\ UNCHANGED <<lhs_roots, rhs_roots, info, inited, calls, last, before, positions,
                   s, words, styles, max_len, passes>>

\* rendered = apply(s, styles)
Apply ==
    /\ rendered = NoRender
    /\ rendered' = [op |-> "apply", res |-> Ok(apply(s, styles))]
    /\ UNCHANGED <<lhs_roots, rhs_roots, info, inited, calls, last, before, positions,
                   s, words, styles, max_len, passes>>

NextChunks ==
    \/ SplitString
    \/ \E underflow \in Underflows : SplitAndApply(underflow)
    \/ Apply

SpecChunks == InitChunks /\ [][NextChunks]_vars

NextApply == Apply

SpecApply == InitApply /\ [][NextApply]_vars

(***************************************************************************)
(* Properties of the metadata pass                                         *)
(***************************************************************************)
ContentIdOf(r) == info[r].content_id

UniqueIdOf(r) == info[r].unique_id

Atoms == {r \in Refs : ~IsList(NodeAt(r))}

Lists == {r \in Refs : IsList(NodeAt(r))}

\* The references of the children of the list at r, in child order.
ChildRefs(r) == [k \in 1..Len(NodeAt(r).children) |-> Append(r, k)]

ChildContentIds(r) == [k \in 1..Len(NodeAt(r).children) |-> ContentIdOf(Append(r, k))]

\* Structural equality as the claim words it: raw text for every atom.
StructurallyEqualRaw(m, n) ==
    LET a == NodeAt(m)
        b == NodeAt(n)
    IN  \/ /\ ~IsList(a) /\ ~IsList(b)
           /\ a.kind = b.kind
           /\ a.content = b.content
        \/ /\ IsList(a) /\ IsList(b)
           /\ a.open_content = b.open_content
           /\ a.close_content = b.close_content
           /\ ChildContentIds(m) = ChildContentIds(n)

\* The raw pieces of a text between its newlines, each without its leading
\* whitespace.
StrippedPieces(text) ==
    LET pieces == SplitLines(text, <<>>)
    IN  [k \in 1..Len(pieces) |-> trim_start(pieces[k])]

MultiLine(text) == Len(lines(text)) > 1

\* The text a comment of more than one line is compared by: its lines, each
\* without its leading whitespace, joined by newlines.  Any other atom is
\* compared by its raw text.
ComparedText(a) ==
    IF a.kind = "Comment" /\ MultiLine(a.content)
    THEN LET ls == lines(a.content)
         IN  join([k \in 1..Len(ls) |-> trim_start(ls[k])], <<NL>>)
    ELSE a.content

StructurallyEqual(m, n) ==
    LET a == NodeAt(m)
        b == NodeAt(n)
    IN  \/ /\ ~IsList(a) /\ ~IsList(b)
           /\ a.kind = b.kind
           /\ ComparedText(a) = ComparedText(b)
        \/ /\ IsList(a) /\ IsList(b)
           /\ a.open_content = b.open_content
           /\ a.close_content = b.close_content
           /\ ChildContentIds(m) = ChildContentIds(n)

\* C1 as stated: after init_info two nodes share a content_id iff they are
\* both atoms of the same kind and the same text, or both lists with the same
\* open text, close text and children content_ids in order.
C1_ContentIdIffRawEqual ==
    inited => \A m \in Refs, n \in Refs :
                 (ContentIdOf(m) = ContentIdOf(n)) <=> StructurallyEqualRaw(m, n)

\* C1 as amended: after init_info two nodes share a content_id iff they are
\* both atoms of the same kind and the same compared text (the raw text,
\* except for a Comment of more than one line, whose lines are compared
\* without their leading whitespace), or both lists with the same open text,
\* close text and children content_ids in order.  Spans, change and
\* unique_id take no part; an atom never shares a content_id with a list.
C1_ContentIdIffStructurallyEqual ==
    inited => \A m \in Refs, n \in Refs :
                 (ContentIdOf(m) = ContentIdOf(n)) <=> StructurallyEqual(m, n)

\* Two different lists with children, at different spans, share a content_id,
\* and two atoms of one text and different kinds do not.
C1_Witness ==
    /\ inited
    /\ \E m \in Lists, n \in Lists :
          /\ m # n
          /\ NodeAt(m).children # <<>>
          /\ NodeAt(m).open_position # NodeAt(n).open_position
          /\ UniqueIdOf(m) # UniqueIdOf(n)
          /\ ContentIdOf(m) = ContentIdOf(n)

\* C2: after init_info, (a) two Comment atoms of more than one line each whose
\* texts differ only in the leading whitespace of their lines share a
\* content_id; (b) two atoms of one non-Comment kind with different texts do
\* not; (c) two single-line Comments share a content_id iff their raw texts
\* are equal.
C2_MultiLineCommentWhitespace ==
    inited => \A m \in Atoms, n \in Atoms :
        LET a == NodeAt(m)
            b == NodeAt(n)
        IN  /\ ( /\ a.kind = "Comment" /\ b.kind = "Comment"
                 /\ MultiLine(a.content) /\ MultiLine(b.content)
                 /\ StrippedPieces(a.content) = StrippedPieces(b.content) )
               => ContentIdOf(m) = ContentIdOf(n)
            /\ ( /\ a.kind # "Comment" /\ b.kind # "Comment"
                 /\ a.content # b.content )
               => ContentIdOf(m) # ContentIdOf(n)
            /\ ( /\ a.kind = "Comment" /\ b.kind = "Comment"
                 /\ ~MultiLine(a.content) /\ ~MultiLine(b.content) )
               => ((ContentIdOf(m) = ContentIdOf(n)) <=> (a.content = b.content))

\* Two multi-line Comments whose raw texts differ share a content_id.
C2_Witness ==
    /\ inited
    /\ \E m \in Atoms, n \in Atoms :
          /\ NodeAt(m).kind = "Comment" /\ NodeAt(n).kind = "Comment"
          /\ MultiLine(NodeAt(m).content) /\ MultiLine(NodeAt(n).content)
          /\ NodeAt(m).content # NodeAt(n).content
          /\ ContentIdOf(m) = ContentIdOf(n)

RECURSIVE Preorder(_, _)
\* The references of a forest, a list before its children and an earlier
\* sibling's subtree before a later sibling.
Preorder(nodes, prefix) ==
    IF nodes = <<>> THEN <<>>
    ELSE LET k == Len(nodes)
             r == Append(prefix, k)
         IN  Preorder(SubSeq(nodes, 1, k - 1), prefix) \o <<r>>
             \o (IF IsList(nodes[k]) THEN Preorder(nodes[k].children, r) ELSE <<>>)

RECURSIVE Postorder(_, _)
\* The references of a forest, children before their list.
Postorder(nodes, prefix) ==
    IF nodes = <<>> THEN <<>>
    ELSE LET k == Len(nodes)
             r == Append(prefix, k)
         IN  Postorder(SubSeq(nodes, 1, k - 1), prefix)
             \o (IF IsList(nodes[k]) THEN Postorder(nodes[k].children, r) ELSE <<>>)
             \o <<r>>

BothPreorder == Preorder(lhs_roots, <<1>>) \o Preorder(rhs_roots, <<2>>)

BothPostorder == Postorder(lhs_roots, <<1>>) \o Postorder(rhs_roots, <<2>>)

\* C3: after init_info the unique_ids are pairwise distinct, are the
\* positions 0, 1, 2, ... of the nodes in the preorder of the left roots
\* followed by the preorder of the right roots (none skipped, none reused),
\* and every left node's is below every right node's.
C3_UniqueIdPreorder ==
    inited =>
        /\ \A i \in 1..Len(BothPreorder) : UniqueIdOf(BothPreorder[i]) = i - 1
        /\ \A m \in Refs, n \in Refs : m # n => UniqueIdOf(m) # UniqueIdOf(n)
        /\ \A m \in SideRefs(1), n \in SideRefs(2) : UniqueIdOf(m) < UniqueIdOf(n)
        /\ {UniqueIdOf(r) : r \in Refs} = 0..(Cardinality(Refs) - 1)

\* Both trees have nodes, and a list with a child is followed by a sibling.
C3_Witness ==
    /\ inited
    /\ lhs_roots # <<>> /\ rhs_roots # <<>>
    /\ \E m \in Lists :
          /\ NodeAt(m).children # <<>>
          /\ info[m].next # None
          /\ UniqueIdOf(info[m].next[1]) = UniqueIdOf(m) + NodeAt(m).num_descendants + 1

\* The content key of a node, read off the finished trees.
ContentKeyOf(r) ==
    LET a == NodeAt(r)
    IN  IF IsList(a)
        THEN <<"List", a.open_content, a.close_content, ChildContentIds(r)>>
        ELSE <<"Atom", ComparedText(a), a.kind>>

\* C4: after init_info every content_id is at least 1, the content_ids in use
\* are exactly 1..k for k the number of distinct content keys of both trees,
\* and in the order children-before-parent, left roots before right roots,
\* the first node of a key gets the next unused id and a later one reuses it;
\* before init_info every content_id is 0.
C4_ContentIdDense ==
    /\ ~inited => \A r \in Refs : ContentIdOf(r) = 0
    /\ inited =>
        /\ \A r \in Refs : ContentIdOf(r) >= 1
        /\ {ContentIdOf(r) : r \in Refs} = 1..Cardinality({ContentKeyOf(r) : r \in Refs})
        /\ \A i \in 1..Len(BothPostorder) :
              LET P == BothPostorder
                  earlier == {j \in 1..(i - 1) : ContentKeyOf(P[j]) = ContentKeyOf(P[i])}
              IN  IF earlier = {}
                  THEN ContentIdOf(P[i])
                         = Cardinality({ContentKeyOf(P[j]) : j \in 1..(i - 1)}) + 1
                  ELSE \A j \in earlier : ContentIdOf(P[i]) = ContentIdOf(P[j])

\* A key occurs on both sides and is reused, and another key got the next id.
C4_Witness ==
    /\ inited
    /\ \E m \in SideRefs(1), n \in SideRefs(2) : ContentKeyOf(m) = ContentKeyOf(n)
    /\ \E r \in Refs : ContentIdOf(r) >= 2

(***************************************************************************)
(* Properties of the change annotation                                     *)
(***************************************************************************)
ChangeOf(r) == info[r].change

\* x is the node at r or one of its descendants.
Under(r, x) == Len(x) >= Len(r) /\ SubSeq(x, 1, Len(r)) = r

RECURSIVE Counterpart(_, _, _)
\* Where set_change_deep(Unchanged(oth)) on the node at cur leaves the
\* descendant reached from cur by the child indices q: paired with the node
\* Counterpart[1], or not covered (None).  Two lists pair their children by
\* index as far as the shorter goes; a list paired with an atom passes the
\* atom on to every descendant.
Counterpart(cur, oth, q) ==
    IF q = <<>> THEN Some(oth)
    ELSE IF ~IsList(NodeAt(oth)) THEN Some(oth)
    ELSE IF q[1] <= Len(NodeAt(oth).children)
         THEN Counterpart(Append(cur, q[1]), Append(oth, q[1]), Tail(q))
    ELSE None

LastWasDeep == last.op = "set_change_deep"

LastPairsLists ==
    /\ LastWasDeep
    /\ IsList(NodeAt(last.node))
    /\ last.ck.tag = "Unchanged"
    /\ IsList(NodeAt(last.ck.other))

\* C5: set_change_deep(Unchanged(other)) on a list, other a list too, gives the
\* node Unchanged(other) and, recursively, its i-th child Unchanged(i-th child
\* of other) for every i below the smaller child count; every other node (the
\* trailing children of the longer list and their descendants, and all nodes
\* outside the subtree, the opposite tree included) is exactly as it was.
C5_UnchangedListsZipChildren ==
    LastPairsLists =>
        \A x \in Refs :
            LET c == IF Under(last.node, x)
                     THEN Counterpart(last.node, last.ck.other,
                                      SubSeq(x, Len(last.node) + 1, Len(x)))
                     ELSE None
            IN  IF c # None
                THEN info[x] = [before[x] EXCEPT !.change = Some(Unchanged(c[1]))]
                ELSE info[x] = before[x]

\* The longer list was paired with a shorter one that has a child, and a
\* trailing child of the longer had, and keeps, a status of its own.
C5_Witness ==
    /\ LastPairsLists
    /\ Len(NodeAt(last.ck.other).children) >= 1
    /\ Len(NodeAt(last.node).children) > Len(NodeAt(last.ck.other).children)
    /\ LET x == Append(last.node, Len(NodeAt(last.node).children))
       IN  /\ before[x].change # None
           /\ ChangeOf(x) = before[x].change
    /\ ChangeOf(Append(last.node, 1)) = Some(Unchanged(Append(last.ck.other, 1)))

\* C6: set_change_deep(ck) on a list, ck anything but Unchanged(a list),
\* leaves the node and every descendant at every depth with change = ck,
\* whatever they had; on an atom it sets that atom's change alone.  Nothing
\* else is modified.
C6_OtherKindsStampAll ==
    (LastWasDeep /\ ~LastPairsLists) =>
        \A x \in Refs :
            IF Under(last.node, x)
            THEN info[x] = [before[x] EXCEPT !.change = Some(last.ck)]
            ELSE info[x] = before[x]

\* A list was stamped with Unchanged(an atom) or ReplacedComment, and a
\* grandchild that had another status now has the list's.
C6_Witness ==
    /\ LastWasDeep /\ ~LastPairsLists
    /\ last.ck.tag # "Novel"
    /\ \E x \in Refs :
          /\ Under(last.node, x)
          /\ Len(x) = Len(last.node) + 2
          /\ before[x].change # None
          /\ before[x].change # Some(last.ck)
          /\ ChangeOf(x) = Some(last.ck)

(***************************************************************************)
(* Properties of the matched-position deriver                              *)
(***************************************************************************)
Derived == positions.status # "none"

Returned == positions.status = "ok"

\* The nodes reachable from the roots change_positions was given.
Walked == SideRefs(positions.side)

HasNovelOrUnchanged(x) ==
    /\ ChangeOf(x) # None
    /\ ChangeOf(x)[1].tag \in {"Novel", "Unchanged"}

\* C7: change_positions aborts (returns no list) whenever some node reachable
\* from the given roots, at any depth, has no ChangeKind set; when every
\* reachable node has Novel or Unchanged set, it completes and returns a list.
C7_AbortsOnUnsetChange ==
    Derived =>
        /\ (\E x \in Walked : ChangeOf(x) = None) => positions.status = "panic"
        /\ (\A x \in Walked : HasNovelOrUnchanged(x)) => Returned

\* The walk aborted on a tree whose root and child have a change and whose
\* grandchild alone has none.
C7_Witness ==
    /\ positions.status = "panic"
    /\ \E x \in Walked :
          /\ Len(x) = 4
          /\ ChangeOf(x) = None
          /\ \A y \in Walked \ {x} : HasNovelOrUnchanged(y)

Out == positions.out

Range(f) == {f[k] : k \in DOMAIN f}

\* The entries made by the loop of MatchedPos::new.
OfSpan(k) == Out[k].kind.tag \in {"Novel", "Unchanged"}

\* The places in the output of the entries for the spans `position`; the
\* spans of different nodes of one tree differ.
EntriesAt(position) == {k \in 1..Len(Out) : OfSpan(k) /\ Out[k].pos \in Range(position)}

SpansOf(node) ==
    IF IsList(node) THEN node.open_position \o node.close_position ELSE node.position

EntriesUnder(x) == UNION {EntriesAt(SpansOf(NodeAt(y))) : y \in {y \in Walked : Under(x, y)}}

AllBefore(A, B) == \A a \in A, b \in B : a < b

\* Open entries, then the children's entries in child order, then close
\* entries.
ListEntriesInOrder(x) ==
    LET n == NodeAt(x)
        open == EntriesAt(n.open_position)
        close == EntriesAt(n.close_position)
        kid(i) == EntriesUnder(Append(x, i))
    IN  /\ AllBefore(open, close)
        /\ \A i \in 1..Len(n.children) : AllBefore(open, kid(i)) /\ AllBefore(kid(i), close)
        /\ \A i, j \in 1..Len(n.children) : i < j => AllBefore(kid(i), kid(j))

ListEntriesAlike(x) ==
    LET n == NodeAt(x)
        both == EntriesAt(n.open_position) \cup EntriesAt(n.close_position)
    IN  /\ \A k, l \in both : Out[k].kind = Out[l].kind
        /\ \A k \in both : Out[k].kind.highlight = Delimiter

\* The order of a list's entries, on its own.
ListsInOrder ==
    Returned => \A x \in Walked : IsList(NodeAt(x)) => ListEntriesInOrder(x)

\* C8: for every List node visited by change_positions the output holds the
\* entries of its open-delimiter spans, then the entries of its children in
\* child order, then the entries of its close-delimiter spans, and the open
\* and close entries of one list all carry the same MatchKind value, with
\* highlight TokenKind::Delimiter.
C8_ListEntriesSameMatchKind ==
    Returned =>
        \A x \in Walked :
            IsList(NodeAt(x)) => ListEntriesInOrder(x) /\ ListEntriesAlike(x)

ZeroWidth(span) == span.start_col = span.end_col

\* Of a node marked Novel or Unchanged, every span of `position` that is not
\* zero-width has exactly one entry and every zero-width span none, the
\* entries in span order and with the node's status.
OnePerNonEmptySpan(x, position) ==
    /\ \A j \in 1..Len(position) :
          Cardinality({k \in 1..Len(Out) : OfSpan(k) /\ Out[k].pos = position[j]})
              = IF ZeroWidth(position[j]) THEN 0 ELSE 1
    /\ \A i, j \in 1..Len(position) :
          i < j => AllBefore(EntriesAt(<<position[i]>>), EntriesAt(<<position[j]>>))
    /\ \A k \in EntriesAt(position) : Out[k].kind.tag = ChangeOf(x)[1].tag

SpanEntriesAsClaimed ==
    /\ \A x \in Walked :
          HasNovelOrUnchanged(x) =>
              LET n == NodeAt(x)
              IN  IF IsList(n)
                  THEN /\ OnePerNonEmptySpan(x, n.open_position)
                       /\ OnePerNonEmptySpan(x, n.close_position)
                  ELSE /\ OnePerNonEmptySpan(x, n.position)
                       /\ \A k \in EntriesAt(n.position) :
                             Out[k].kind.highlight = TokenAtom(n.kind)
    /\ \A k \in 1..Len(Out) :
          OfSpan(k) => \E x \in Walked : HasNovelOrUnchanged(x) /\ k \in EntriesUnder(x)

Split == last.op = "split_words"

RECURSIVE Concatenated(_)
Concatenated(tokens) ==
    IF tokens = <<>> THEN <<>> ELSE Head(tokens) \o Concatenated(Tail(tokens))

IsAlphaNumRun(token) == token # <<>> /\ \A k \in 1..Len(token) : token[k] \in AlphaNum

\* C10: split_words(s) returns the tokens of s in order: no token is empty,
\* each is a run of alphanumeric characters or one other character (so
\* punctuation is split one character a token and a newline is never merged
\* with a neighbour), a run of alphanumerics is maximal (no two adjacent tokens
\* are both alphanumeric), and concatenating the tokens gives back s.
C10_SplitWordsTokens ==
    Split =>
        /\ Concatenated(words) = s
        /\ \A k \in 1..Len(words) :
              \/ IsAlphaNumRun(words[k])
              \/ Len(words[k]) = 1 /\ words[k][1] \notin AlphaNum
        /\ \A k \in 1..(Len(words) - 1) :
              ~(IsAlphaNumRun(words[k]) /\ IsAlphaNumRun(words[k + 1]))

\* A text was split into a run of two alphanumerics, a full stop and a
\* newline right after it.
C10_Witness ==
    /\ Split
    /\ \E k \in 1..(Len(words) - 2) :
          /\ IsAlphaNumRun(words[k]) /\ Len(words[k]) = 2
          /\ words[k + 1] = <<".">>
          /\ words[k + 2] = <<NL>>

(***************************************************************************)
(* Properties of the comment word differ                                   *)
(***************************************************************************)
\* change_positions returned the comment parts of the left comment.
CommentSplit ==
    /\ Returned
    /\ positions.side = 1
    /\ ChangeOf(<<1, 1>>) = Some(ReplacedComment(<<1, 1>>, <<2, 1>>))

\* The sum of the lengths of the tokens before the j-th.
OffsetOf(tokens, j) == Len(Concatenated(SubSeq(tokens, 1, j - 1)))

\* The spans of the j-th token of `content`, whose first span is `pos`.
TokenSpans(content, pos, j) ==
    LET tokens == split_words(content)
    IN  from_offsets_relative_to(NewlinePositions_from(content), pos,
                                 OffsetOf(tokens, j), OffsetOf(tokens, j) + Len(tokens[j]))

\* C11: split_comment_words emits exactly one MatchedPos per token of content,
\* in token order, and none for opposite-only tokens: an entry is an
\* UnchangedCommentPart when the LCS alignment pairs its token with an equal
\* opposite token (the pairs keep the order of both sides and are as many as
\* a longest common subsequence has) and a ChangedCommentPart otherwise.  The
\* span of the j-th entry comes from the offsets [sum of the lengths of the
\* earlier tokens, that sum plus the token's length), the opposite span of an
\* UnchangedCommentPart from the sum of the lengths of all earlier opposite
\* tokens, and the two offsets end at the lengths of the two texts.  Comments
\* with no token in common yield ChangedCommentPart entries only.
C11_OneEntryPerToken ==
    CommentSplit =>
        LET this == NodeAt(<<1, 1>>)
            opposite == NodeAt(<<2, 1>>)
            tokens == split_words(this.content)
            opposite_tokens == split_words(opposite.content)
            unchanged == {j \in 1..Len(Out) : Out[j].kind.tag = "UnchangedCommentPart"}
        IN  /\ Len(Out) = Len(tokens)
            /\ \A j \in 1..Len(Out) :
                  /\ Out[j].kind.tag \in {"UnchangedCommentPart", "ChangedCommentPart"}
                  /\ Out[j].pos = TokenSpans(this.content, this.position[1], j)[1]
                  /\ Out[j].kind.tag = "UnchangedCommentPart" => Out[j].kind.self_pos = Out[j].pos
            /\ \E f \in [unchanged -> 1..Len(opposite_tokens)] :
                  /\ \A i, j \in unchanged : i < j => f[i] < f[j]
                  /\ \A j \in unchanged :
                        /\ tokens[j] = opposite_tokens[f[j]]
                        /\ Out[j].kind.opposite_pos
                               = TokenSpans(opposite.content, opposite.position[1], f[j])
            /\ Cardinality(unchanged)
                   = LcsLength(tokens, opposite_tokens, Len(tokens), Len(opposite_tokens))
            /\ (Range(tokens) \cap Range(opposite_tokens) = {}) => unchanged = {}
            /\ CommentOffsets(diff_slice(tokens, opposite_tokens), 1, 0, 0)
                   = <<Len(this.content), Len(opposite.content)>>

\* A comment of three tokens was split against one that has an opposite-only
\* token before a common token of another length than its neighbours: a
\* changed part and an unchanged part were emitted.
C11_Witness ==
    /\ CommentSplit
    /\ Len(Out) >= 2
    /\ \E i, j \in 1..Len(Out) :
          /\ Out[i].kind.tag = "ChangedCommentPart"
          /\ Out[j].kind.tag = "UnchangedCommentPart"
          /\ Out[j].kind.opposite_pos[1].start_col > NodeAt(<<2, 1>>).position[1].start_col
    /\ Len(split_words(NodeAt(<<2, 1>>).content)) > Cardinality({j \in 1..Len(Out) : Out[j].kind.tag = "UnchangedCommentPart"})

\* Most nodes the two trees hold together, when the passes run twice.
MaxRerunNodes == 3

\* Most set_change / set_change_deep calls of one run of the passes.
MaxRerunCalls == 2

InitRerun == TreePairs(TreeLabels, MaxRerunNodes)

\* The calls the matcher can make on the two trees.
MatcherCalls ==
    UNION {{[deep |-> deep, node |-> r, ck |-> ck] :
               deep \in BOOLEAN, ck \in ChangeKindsFor(r)} : r \in Refs}

\* A run of the passes starts: init_info(lhs_roots, rhs_roots), on parsed
\* trees the first time, on the trees the first run left the second time.
RunInitInfo ==
    /\ passes.phase \in {"parsed", "derived"}
    /\ passes.runs < 2
    /\ info' = init_info(lhs_roots, rhs_roots, info)
    /\ inited' = TRUE
    /\ before' = info
    /\ passes' = [passes EXCEPT !.phase = "annotating", !.runs = @ + 1, !.k = 0]
    /\ UNCHANGED <<lhs_roots, rhs_roots, calls, last, positions, s, words, styleVars>>

\* The matcher's next call: any call in the first run, and in the second run
\* the call the first run made at this place.
RunCall(call) ==
    /\ passes.phase = "annotating"
    /\ IF passes.runs = 1
       THEN /\ Len(passes.cs) < MaxRerunCalls
            /\ passes' = [passes EXCEPT !.cs = Append(@, call)]
       ELSE /\ passes.k < Len(passes.cs)
            /\ call = passes.cs[passes.k + 1]
            /\ passes' = [passes EXCEPT !.k = @ + 1]
    /\ info' = IF call.deep THEN set_change_deep(call.node, call.ck, info)
               ELSE set_change(call.node, call.ck, info)
    /\ calls' = calls + 1
    /\ last' = [op |-> IF call.deep THEN "set_change_deep" ELSE "set_change",
                node |-> call.node, ck |-> call.ck]
    /\ UNCHANGED <<lhs_roots, rhs_roots, inited, before, positions, s, words, styleVars>>

\* A run ends: change_positions on either side; the first run's outcome is
\* kept for comparison.
RunChangePositions ==
    /\ passes.phase = "annotating"
    /\ passes.runs = 2 => passes.k = Len(passes.cs)
    /\ positions' = [lhs |-> change_positions(1, info), rhs |-> change_positions(2, info)]
    /\ passes' = [passes EXCEPT !.phase = "derived",
                                !.first = IF passes.runs = 1
                                          THEN [info |-> info, positions |-> positions']
                                          ELSE @]
    /\ UNCHANGED <<lhs_roots, rhs_roots, info, inited, calls, last, before, s, words, styleVars>>

NextRerun ==
    \/ RunInitInfo
    \/ \E call \in MatcherCalls : RunCall(call)
    \/ RunChangePositions

SpecRerun == InitRerun /\ [][NextRerun]_vars

(***************************************************************************)
(* Properties of the styling functions                                     *)
(***************************************************************************)
\* The text of a coloured string without its style codes.
TextOf(segments) == Concatenated([k \in 1..Len(segments) |-> segments[k].text])

ShownAs(segment) ==
    IF segment.how = "styled" THEN [how |-> "styled", style |-> segment.style]
    ELSE [how |-> segment.how]

RECURSIVE MarksOf(_)
\* How every character of a coloured string is shown, character by character.
MarksOf(segments) ==
    IF segments = <<>> THEN <<>>
    ELSE [k \in 1..Len(Head(segments).text) |-> ShownAs(Head(segments))]
         \o MarksOf(Tail(segments))

RECURSIVE RenderedLines(_, _)
\* The coloured lines of the string apply built, one for every "\n" pushed.
RenderedLines(segments, cur) ==
    IF segments = <<>> THEN <<>>
    ELSE IF Head(segments).how = "plain"
         THEN <<cur>> \o RenderedLines(Tail(segments), <<>>)
    ELSE RenderedLines(Tail(segments), Append(cur, Head(segments)))

\* The spans come in column order and do not overlap.
Ordered(line_styles) ==
    \A k \in 1..(Len(line_styles) - 1) :
        line_styles[k][1].end_col <= line_styles[k + 1][1].start_col

\* The styles covering column col (0-based), as indices of the list.
Covering(line_styles, col) ==
    {k \in 1..Len(line_styles) :
        line_styles[k][1].start_col <= col /\ col < line_styles[k][1].end_col}

\* `segments` shows the text `part`, which starts at column `first` of its
\* line, each character once: in the style of the span that covers it, and
\* dimmed where no span does.
ShownOnce(segments, part, first, line_styles) ==
    /\ TextOf(segments) = part
    /\ \A c \in 1..Len(part) :
          LET over == Covering(line_styles, first + c - 1)
          IN  IF over = {} THEN MarksOf(segments)[c] = [how |-> "dimmed"]
              ELSE \E k \in over :
                      MarksOf(segments)[c] = [how |-> "styled", style |-> line_styles[k][2]]

Applied == rendered.op = "apply"

AppliedInChunks == rendered.op = "split_and_apply"

Ascii == TwoByteChar \notin Range(s)

\* The segments apply wrote for the k-th line of s.
AppliedLine(k) == RenderedLines(rendered.res.out, <<>>)[k]

\* C12: for any line and any non-empty list of (span, style) pairs given to
\* apply_line, the styled and dimmed segments written, without their style
\* codes, have lengths that sum to the length of the line: every character
\* of the line appears exactly once.
C12_SegmentsCoverLineOnce ==
    Applied =>
        \A k \in 1..Len(lines(s)) :
            OnLine(styles, k - 1) # <<>> =>
                /\ Len(TextOf(AppliedLine(k))) = codepoint_len(lines(s)[k])
                /\ TextOf(AppliedLine(k)) = lines(s)[k]

\* With the spans of a line in column order and not overlapping, apply shows
\* every character of the line once, styled where a span covers it.
OrderedLinesShownOnce ==
    Applied =>
        \A k \in 1..Len(lines(s)) :
            (OnLine(styles, k - 1) # <<>> /\ Ordered(OnLine(styles, k - 1))) =>
                ShownOnce(AppliedLine(k), lines(s)[k], 0, OnLine(styles, k - 1))

\* Every part of the line is shown once by split_and_apply.
PartsShownOnce ==
    /\ rendered.res.status = "ok"
    /\ LET parts == split_string(s, max_len).out
       IN  /\ Len(rendered.res.out) = Len(parts)
           /\ \A k \in 1..Len(parts) :
                 ShownOnce(rendered.res.out[k], parts[k], OffsetOf(parts, k), styles)

\* C13: split_and_apply with a non-empty style list renders every chunk of
\* the line so that each character of the chunk appears exactly once, styled
\* where a span covers it and dimmed elsewhere, spans clipped to the chunk, and
\* no column computation goes below zero.  Stated for spans in column order
\* that do not overlap and for an ASCII line.
C13_ChunksShownOnce ==
    (AppliedInChunks /\ styles # <<>> /\ Ordered(styles) /\ Ascii) => PartsShownOnce

SplitDone == rendered.op = "split_string"

Spaces(n) == [k \in 1..n |-> " "]

\* The chunks are those of the text `line` at width `width`: every chunk has
\* width characters, and together they are the line followed by the spaces
\* that fill the last chunk (a whole chunk of spaces for the empty line only).
ChunksOf(chunks, line, width) ==
    /\ Len(chunks) >= 1
    /\ \A k \in 1..Len(chunks) : Len(chunks[k]) = width
    /\ LET padding == Len(chunks) * width - Len(line)
       IN  /\ padding >= 0
           /\ Concatenated(chunks) = line \o Spaces(padding)
           /\ IF line = <<>> THEN padding = width ELSE padding < width

\* C14: split_string(s, max_len) with max_len >= 1 terminates and returns at
\* least one chunk; every chunk has length exactly max_len, only the final
\* chunk is padded, with trailing spaces, and the chunks concatenate to s
\* followed by the padding; a length that is a multiple of max_len gets no
\* all-space chunk and the empty string gives one chunk of spaces.
C14_ChunksOfWidth ==
    SplitDone =>
        /\ rendered.res.status = "ok"
        /\ ChunksOf(rendered.res.out, s, max_len)

\* split_string on ASCII text alone.
AsciiChunksOfWidth == (SplitDone /\ Ascii) => C14_ChunksOfWidth

\* A span of the list ends past the end of the line.
BeyondText(line, line_styles) ==
    \E k \in 1..Len(line_styles) : line_styles[k][1].end_col > codepoint_len(line)

\* The part of C15 about apply.
ApplyClipsSpansBeyondText ==
    Applied =>
        \A k \in 1..Len(lines(s)) :
            LET line_styles == OnLine(styles, k - 1)
            IN  (BeyondText(lines(s)[k], line_styles) /\ Ordered(line_styles)) =>
                    ShownOnce(AppliedLine(k), lines(s)[k], 0, line_styles)

\* C15: spans that extend beyond the text never cause a failure in apply or
\* split_and_apply: such a span is styled up to the end of the text only, a
\* span that starts at or past the end styles nothing, the text before and
\* between spans is dimmed, and the call returns with the whole line
\* rendered.  Stated for spans in column order that do not overlap and, in
\* split_and_apply, for an ASCII line.
C15_SpansBeyondTextClipped ==
    /\ ApplyClipsSpansBeyondText
    /\ (AppliedInChunks /\ BeyondText(s, styles) /\ Ordered(styles) /\ Ascii) =>
          PartsShownOnce

AllPurple(segments) == \A k \in 1..Len(segments) : segments[k].how = "purple"

\* In apply, a line without a span is purple even when other lines have
\* spans.
UnstyledLinesPurple ==
    Applied =>
        \A k \in 1..Len(lines(s)) :
            OnLine(styles, k - 1) = <<>> =>
                AllPurple(AppliedLine(k)) /\ TextOf(AppliedLine(k)) = lines(s)[k]

\* In split_and_apply, an empty style list makes every chunk purple, padding
\* included.
UnstyledChunksPurple ==
    (AppliedInChunks /\ styles = <<>>) =>
        /\ rendered.res.status = "ok"
        /\ \A k \in 1..Len(rendered.res.out) : AllPurple(rendered.res.out[k])
        /\ ChunksOf([k \in 1..Len(rendered.res.out) |-> TextOf(rendered.res.out[k])],
                    s, max_len)

\* C16: a line for which no style entry exists is rendered entirely in purple
\* and never dimmed or left plain: in apply for each line whose line number
\* has no span in the style list, and in split_and_apply, given an empty style
\* list, for every chunk of the line, padding included.
C16_UnstyledIsPurple == UnstyledLinesPurple /\ UnstyledChunksPurple

\* split_and_apply without styles on ASCII text alone.
UnstyledAsciiChunksPurple == Ascii => UnstyledChunksPurple

(***************************************************************************)
(* Properties of running the passes twice                                  *)
(***************************************************************************)
RanTwice == passes.runs = 2 /\ passes.phase = "derived"

\* C17: running the full pass sequence (init_info, the same set_change /
\* set_change_deep calls, change_positions) a second time on the same two
\* trees gives every node the unique_id and the content_id of the first run,
\* and the same MatchedPos sequence for either side: nothing the first run
\* left in the trees changes the result.
C17_SecondRunSameResult ==
    RanTwice =>
        /\ \A r \in Refs :
              /\ info[r].unique_id = passes.first.info[r].unique_id
              /\ info[r].content_id = passes.first.info[r].content_id
        /\ positions = passes.first.positions

\* The passes ran twice on trees of more than two nodes, with two calls of the
\* matcher, and returned positions for both sides.
C17_Witness ==
    /\ RanTwice
    /\ Cardinality(Refs) > 2
    /\ Len(passes.cs) = 2
    /\ positions.lhs.status = "ok" /\ positions.lhs.out # <<>>
    /\ positions.rhs.status = "ok" /\ positions.rhs.out # <<>>

(***************************************************************************)
(* Properties of next and prev                                             *)
(***************************************************************************)
\* The node visited right after order[k] in the traversal `order`, if any.
SuccessorIn(order, k) == IF k < Len(order) THEN Some(order[k + 1]) ELSE None

\* The node visited right before order[k], if any.
PredecessorIn(order, k) == IF k > 1 THEN Some(order[k - 1]) ELSE None

\* A node without children: an atom or an empty list.
Childless(r) == ~IsList(NodeAt(r)) \/ NodeAt(r).children = <<>>

\* C18: after init_info, for every node n of a tree, next(n) is n's preorder
\* successor in that tree, the node visited immediately after n in a
\* depth-first preorder traversal, and is None only for the last node of the
\* traversal; prev(n) is n's preorder predecessor; so prev(next(n)) = n
\* whenever next(n) exists.
C18_NextPrevArePreorder ==
    inited =>
        \A side \in {1, 2} :
            LET order == Preorder(Roots(side), <<side>>)
            IN  \A k \in 1..Len(order) :
                    /\ info[order[k]].next = SuccessorIn(order, k)
                    /\ info[order[k]].prev = PredecessorIn(order, k)
                    /\ info[order[k]].next # None =>
                           info[info[order[k]].next[1]].prev = Some(order[k])

\* The reference of the list that holds r (of the side, for a root).
Holder(r) == SubSeq(r, 1, Len(r) - 1)

\* p is the parent of r, or a sibling of r without children.
ParentOrChildlessSibling(p, r) == p = Holder(r) \/ (Holder(p) = Holder(r) /\ Childless(p))

\* What set_next and set_prev do give: next is the preorder successor for
\* the nodes without children, and prev is the preorder predecessor where the
\* node before is the parent or a sibling without children.
NextOfChildlessIsPreorder ==
    inited =>
        \A side \in {1, 2} :
            LET order == Preorder(Roots(side), <<side>>)
            IN  \A k \in 1..Len(order) :
                    /\ Childless(order[k]) => info[order[k]].next = SuccessorIn(order, k)
                    /\ (k > 1 /\ ParentOrChildlessSibling(order[k - 1], order[k])) =>
                           info[order[k]].prev = PredecessorIn(order, k)
                    /\ k = 1 => info[order[k]].prev = None

(***************************************************************************)
(* Properties of prev_is_contiguous                                        *)
(***************************************************************************)
\* The line of the predecessor p that n is compared with: the last line of
\* p's open delimiter when p is a list above n, of its close delimiter when p
\* is a list at n's depth, and p's last line when p is an atom.
RelevantLastLine(p, n) ==
    IF IsList(NodeAt(p))
    THEN IF Len(p) < Len(n) THEN LastLineOf(NodeAt(p).open_position)
         ELSE LastLineOf(NodeAt(p).close_position)
    ELSE last_line(NodeAt(p))

\* C19: after init_info, prev_is_contiguous(n) is true if and only if n has a
\* predecessor p = prev(n) and p's relevant last line equals n's first line;
\* it is false for a node with no predecessor, the first root of a side.
C19_PrevIsContiguous ==
    inited =>
        /\ \A n \in Refs :
              info[n].prev_is_contiguous
                  = (/\ info[n].prev # None
                     /\ RelevantLastLine(info[n].prev[1], n) = first_line(NodeAt(n)))
        /\ \A side \in {1, 2} :
              SideRefs(side) # {} => ~info[<<side, 1>>].prev_is_contiguous

\* Lists whose delimiters end on different lines are predecessors: one of its
\* first child, which is contiguous, and one of its next sibling, which is
\* not.
C19_Witness ==
    /\ inited
    /\ \E p \in Lists, n \in Refs :
          /\ LastLineOf(NodeAt(p).open_position) # LastLineOf(NodeAt(p).close_position)
          /\ info[n].prev = Some(p) /\ Len(p) < Len(n) /\ info[n].prev_is_contiguous
    /\ \E p \in Lists, m \in Refs :
          /\ LastLineOf(NodeAt(p).open_position) # LastLineOf(NodeAt(p).close_position)
          /\ info[m].prev = Some(p) /\ Len(p) = Len(m) /\ ~info[m].prev_is_contiguous

=============================================================================
